---- MODULE Spec2Model ----
(***************************************************************************)
(* terraform-provider-certmgr: the certificate client and the lifecycle    *)
(* controller (the Terraform resource), in the revisions the repository    *)
(* holds:                                                                  *)
(*   client     "http"      src/unnamed/part_000 (doRequest based)         *)
(*              "curlList"  src/unnamed/part_002 (curl, list by hostname)  *)
(*              "curlBaby"  src/unnamed/part_001 (curl, delete by id)      *)
(*              "curlCname" src/internal/client/client.go (curl, by path)  *)
(*   controller "v1"  src/internal/provider/certificate_resource.go 1-219  *)
(*              "v2"  src/internal/provider/certificate_resource.go 221-408*)
(* The certmgr API itself is an external service; it is modelled by the    *)
(* Api* operators from the endpoints the client addresses.                 *)
(***************************************************************************)
EXTENDS Integers, Sequences, FiniteSets, TLC

\* ------------------------------------------------------------- bounds
MaxId == 3
MaxClock == 1
MaxPortLen == 5
MaxAddrs == 2
MaxPtrs == 2

Hostnames == {"h1", "h2"}
Requestors == {"terraform-test"}

\* ---------------------------------------------------------- revisions
\* (client revision, controller revision) pairs whose call signatures agree:
\* v1 calls UpdateCertificate(string, cert) and DeleteCertificate(int),
\* v2 calls UpdateCertificate(cert) and DeleteCertificate(hostname).
\* part_001 deletes by int64, which neither controller revision passes.
\* With "none" the client is called directly, as client_test.go does.
Revisions ==
    { <<"http", "none">>, <<"curlList", "none">>, <<"curlBaby", "none">>,
      <<"curlCname", "none">>,
      <<"http", "v2">>, <<"curlList", "v2">>, <<"curlCname", "v1">> }

ListsByHostname(rev) == rev \in {"http", "curlList", "curlBaby"}
DeletesByHostname(rev) == rev \in {"http", "curlList"}
UsesCurl(rev) == rev # "http"

\* ------------------------------------------------------------- values
\* type Certificate struct (start/end are passed through untouched and left out)
Certificate(id, hostname, requestor) ==
    [id |-> id, hostname |-> hostname, requestor |-> requestor]

\* the zero value of Certificate, what json.Unmarshal leaves when no key matches
ZeroCert == Certificate(0, "", "")

\* types.String.String(): the value in double quotes
Quote(s) == "\"" \o s \o "\""
QuotedHostnames == { Quote(h) : h \in Hostnames }

Digits == <<"0", "1", "2", "3", "4", "5", "6", "7", "8", "9">>

RECURSIVE Itoa(_)
\* strconv.Itoa for n >= 0
Itoa(n) == IF n < 10 THEN Digits[n + 1]
           ELSE Itoa(n \div 10) \o Digits[(n % 10) + 1]

\* the ids a decimal string can denote in this model
IdRange == 0 .. (MaxId + 1)

\* strconv.Atoi on a decimal string: ok and the number, or not ok
AtoiOk(s) == \E n \in IdRange : Itoa(n) = s
AtoiVal(s) == CHOOSE n \in IdRange : Itoa(n) = s

\* ------------------------------------------------------- response bodies
\* kind "cert": one record; "list": {"meta":..,"objects":[..]};
\* "errjson": a JSON object of an error answer; "text": not JSON; "empty": no body
CertDoc(c) == [kind |-> "cert", cert |-> c, objects |-> << >>]
ListDoc(objs) == [kind |-> "list", cert |-> ZeroCert, objects |-> objs]
ErrDoc(doc) == [kind |-> doc, cert |-> ZeroCert, objects |-> << >>]
ErrDocs == {"errjson", "text", "empty"}

\* json.Unmarshal(body, &cert): fails on non-JSON, leaves the zero value when
\* the object has none of the record's keys
UnmarshalCertOk(body) == body.kind \in {"cert", "list", "errjson"}
UnmarshalCert(body) == IF body.kind = "cert" THEN body.cert ELSE ZeroCert

\* json.Unmarshal(body, &staged): Objects stays empty when the key is absent
UnmarshalListOk(body) == body.kind \in {"cert", "list", "errjson"}
UnmarshalList(body) == IF body.kind = "list" THEN body.objects ELSE << >>

\* ------------------------------------------------------ the certmgr API
\* POST /krb/certmgr/staged/ {"hostname": h}: records a staged entry
ApiPostStaged(staged, id, hostname) ==
    Append(staged, Certificate(id, hostname, ""))

\* GET /krb/certmgr/staged/?hostname=h: the staged entries of h, in order
ApiListStaged(staged, hostname) ==
    SelectSeq(staged, LAMBDA e : e.hostname = hostname)

\* GET /krb/certmgr/staged/{id}: the entry of that id, if any
ApiHasStaged(staged, key) ==
    \E i \in 1 .. Len(staged) : Itoa(staged[i].id) = key
ApiGetStaged(staged, key) ==
    staged[CHOOSE i \in 1 .. Len(staged) : Itoa(staged[i].id) = key]

\* DELETE /krb/certmgr/staged/{id}
ApiDeleteStaged(staged, id) ==
    SelectSeq(staged, LAMBDA e : e.id # id)

\* POST /krb/certmgr/certificate/ with the full record: the entry of that id
\* takes the posted fields
ApiPostCertificate(staged, cert) ==
    [i \in 1 .. Len(staged) |->
        IF staged[i].id = cert.id THEN cert ELSE staged[i]]

\* ------------------------------------------------------------ transport
\* One request as the client sees it.  net: "down" (no answer: curl exits
\* non-zero, the HTTP call errors), "refused" (the API answers with an error
\* status and an error document), "ok".  honoured: the API carried it out.
Honoured(net, wellformed) == net = "ok" /\ wellformed

\* exec.Command("curl", "-s", "--negotiate", ...).Output(): err only when curl
\* exits non-zero; without --fail an error status still exits 0 with its body
Curl(net, wellformed, doc, good) ==
    IF net = "down" THEN [err |-> TRUE, body |-> ErrDoc("empty")]
    ELSE IF Honoured(net, wellformed) THEN [err |-> FALSE, body |-> good]
    ELSE [err |-> FALSE, body |-> ErrDoc(doc)]

\* c.doRequest(method, url, payload): (body, status, err); success is
\* response-code based (the host resolution before the call is ResolveFails)
DoRequest(net, wellformed, good) ==
    IF Honoured(net, wellformed) THEN [err |-> FALSE, body |-> good]
    ELSE [err |-> TRUE, body |-> ErrDoc("empty")]

Transport(rev, net, wellformed, doc, good) ==
    IF UsesCurl(rev) THEN Curl(net, wellformed, doc, good)
    ELSE DoRequest(net, wellformed, good)

\* a resolution step that is skipped: the request goes out whatever it gave
ResolveIgnored(rev, dns) == FALSE

\* fqdn, err := c.resolveFQDN(); if err != nil { return ... } at the head of
\* every operation of the curl revisions; part_000 leaves the step to
\* c.doRequest
ResolveFails(rev, dns) == dns = "fail"

\* one request of the log: what was asked, how it fared (net), whether the
\* client took it for failed (err) and whether the API carried it out (done)
Req(m, path, key, net, err, done) ==
    [m |-> m, path |-> path, key |-> key, net |-> net, err |-> err,
     done |-> done]

\* a nil *Certificate
NilCert == Certificate(-1, "", "")

\* what a client call hands back, with the backend it leaves and the requests
\* it issued
Out(err, cert, objects, staged, reqs) ==
    [err |-> err, cert |-> cert, objects |-> objects,
     staged |-> staged, reqs |-> reqs]

\* ErrNoCertificates / "no certificates found for hostname %s"
ErrNoCertificates == "no certificates found"

\* ------------------------------------------------------ client operations
\* fmt.Sprintf(`{"hostname": "%s"}`, hostname) is JSON only when the hostname
\* holds no double quote; json.Marshal (part_000) escapes it
CreateBodyWellFormed(rev, hostname) ==
    rev = "http" \/ hostname \notin QuotedHostnames

CreateCertificate(rev, staged, id, hostname, dns, net, doc) ==
    IF ResolveFails(rev, dns)
    THEN Out("resolve", NilCert, << >>, staged, << >>)
    ELSE
      LET wf == CreateBodyWellFormed(rev, hostname)
          after == IF Honoured(net, wf)
                   THEN ApiPostStaged(staged, id, hostname) ELSE staged
          t == Transport(rev, net, wf, doc,
                         CertDoc(Certificate(id, hostname, "")))
          rq == << Req("POST", "staged", "", net, t.err, Honoured(net, wf)) >>
      IN  IF t.err THEN Out("transport", NilCert, << >>, after, rq)
          ELSE IF ~UnmarshalCertOk(t.body)
          THEN Out("decode", NilCert, << >>, after, rq)
          ELSE Out("none", UnmarshalCert(t.body), << >>, after, rq)

\* the first entry of the listing instead of the last
FirstCert(objects) == objects[1]

\* latestCert := staged.Objects[len(staged.Objects)-1]
LatestCert(objects) == objects[Len(objects)]

\* GetCertificate of the revisions that list the staged entries of a hostname
GetByListing(rev, staged, hostname, dns, net, doc) ==
    IF ResolveFails(rev, dns)
    THEN Out("resolve", NilCert, << >>, staged, << >>)
    ELSE
      LET t == Transport(rev, net, TRUE, doc,
                         ListDoc(ApiListStaged(staged, hostname)))
          rq == << Req("GET", "staged?hostname", hostname, net, t.err,
                       Honoured(net, TRUE)) >>
          objects == UnmarshalList(t.body)
      IN  IF t.err THEN Out("transport", NilCert, << >>, staged, rq)
          ELSE IF rev = "curlBaby" /\ t.body.kind = "empty"
          THEN Out("empty", NilCert, << >>, staged, rq)
          ELSE IF ~UnmarshalListOk(t.body)
          THEN Out("decode", NilCert, << >>, staged, rq)
          ELSE IF Len(objects) = 0
          THEN Out(ErrNoCertificates, NilCert, objects, staged, rq)
          ELSE Out("none", LatestCert(objects), objects, staged, rq)

\* GetCertificate of client.go: GET /krb/certmgr/staged/<hostname>, the answer
\* unmarshalled as one Certificate; with an empty hostname the URL is the
\* collection /krb/certmgr/staged/ itself
GetByPath(rev, staged, key, dns, net, doc) ==
    IF ResolveFails(rev, dns)
    THEN Out("resolve", NilCert, << >>, staged, << >>)
    ELSE
      LET found == key = "" \/ ApiHasStaged(staged, key)
          t == Transport(rev, net, found, doc,
                         IF key = "" THEN ListDoc(staged)
                         ELSE IF found THEN CertDoc(ApiGetStaged(staged, key))
                         ELSE ErrDoc(doc))
          rq == << Req("GET", "staged", key, net, t.err,
                       Honoured(net, found)) >>
      IN  IF t.err THEN Out("transport", NilCert, << >>, staged, rq)
          ELSE IF ~UnmarshalCertOk(t.body)
          THEN Out("decode", NilCert, << >>, staged, rq)
          ELSE Out("none", UnmarshalCert(t.body), << >>, staged, rq)

GetCertificate(rev, staged, hostname, dns, net, doc) ==
    IF ListsByHostname(rev)
    THEN GetByListing(rev, staged, hostname, dns, net, doc)
    ELSE GetByPath(rev, staged, hostname, dns, net, doc)

\* UpdateCertificate(cert) error: POST /krb/certmgr/certificate/ with the record
UpdateByPost(rev, staged, cert, dns, net, doc) ==
    IF ResolveFails(rev, dns)
    THEN Out("resolve", NilCert, << >>, staged, << >>)
    ELSE
      LET after == IF Honoured(net, TRUE)
                   THEN ApiPostCertificate(staged, cert) ELSE staged
          t == Transport(rev, net, TRUE, doc, ErrDoc("empty"))
          rq == << Req("POST", "certificate", Itoa(cert.id), net, t.err,
                       Honoured(net, TRUE)) >>
      IN  IF t.err THEN Out("transport", NilCert, << >>, after, rq)
          ELSE Out("none", NilCert, << >>, after, rq)

\* UpdateCertificate(hostname, cert) (*Certificate, error): a GetCertificate,
\* cert is not used
UpdateByGet(rev, staged, hostname, cert, dns, net, doc) ==
    GetCertificate(rev, staged, hostname, dns, net, doc)

\* DeleteCertificate(id): DELETE /krb/certmgr/staged/<id>, the output is dropped
DeleteById(rev, staged, id, dns, net, doc) ==
    IF ResolveFails(rev, dns)
    THEN Out("resolve", NilCert, << >>, staged, << >>)
    ELSE
      LET after == IF Honoured(net, TRUE)
                   THEN ApiDeleteStaged(staged, id) ELSE staged
          t == Transport(rev, net, TRUE, doc, ErrDoc("empty"))
          rq == << Req("DELETE", "staged", Itoa(id), net, t.err,
                       Honoured(net, TRUE)) >>
      IN  IF t.err THEN Out("transport", NilCert, << >>, after, rq)
          ELSE Out("none", NilCert, << >>, after, rq)

\* DeleteCertificate(hostname), first half: list the staged entries, keep the ids
DeleteListing(rev, staged, hostname, dns, net, doc) ==
    IF ResolveFails(rev, dns)
    THEN Out("resolve", NilCert, << >>, staged, << >>)
    ELSE
      LET t == Transport(rev, net, TRUE, doc,
                         ListDoc(ApiListStaged(staged, hostname)))
          rq == << Req("GET", "staged?hostname", hostname, net, t.err,
                       Honoured(net, TRUE)) >>
      IN  IF t.err THEN Out("transport", NilCert, << >>, staged, rq)
          ELSE IF ~UnmarshalListOk(t.body)
          THEN Out("decode", NilCert, << >>, staged, rq)
          ELSE Out("none", NilCert, UnmarshalList(t.body), staged, rq)

\* a loop body that logs a failed DELETE and goes on to the next id
DeleteEventIgnoringError(rev, staged, id, net, doc) ==
    LET after == IF Honoured(net, TRUE)
                 THEN ApiDeleteStaged(staged, id) ELSE staged
        t == Transport(rev, net, TRUE, doc, ErrDoc("empty"))
        rq == << Req("DELETE", "staged", Itoa(id), net, t.err,
                     Honoured(net, TRUE)) >>
    IN  Out("none", NilCert, << >>, after, rq)

\* a loop body whose DELETE clears every staged entry of the hostname the id
\* belongs to
DeleteEventByHostname(rev, staged, id, net, doc) ==
    LET hosts == { staged[k].hostname : k \in { j \in 1 .. Len(staged) :
                                                  staged[j].id = id } }
        after == IF Honoured(net, TRUE)
                 THEN SelectSeq(staged, LAMBDA e : e.hostname \notin hosts)
                 ELSE staged
        t == Transport(rev, net, TRUE, doc, ErrDoc("empty"))
        rq == << Req("DELETE", "staged", Itoa(id), net, t.err,
                     Honoured(net, TRUE)) >>
    IN  IF t.err THEN Out("transport", NilCert, << >>, after, rq)
        ELSE Out("none", NilCert, << >>, after, rq)

\* DeleteCertificate(hostname), the loop body: one DELETE per listed id, the
\* first error returns
DeleteEvent(rev, staged, id, net, doc) ==
    LET after == IF Honoured(net, TRUE)
                 THEN ApiDeleteStaged(staged, id) ELSE staged
        t == Transport(rev, net, TRUE, doc, ErrDoc("empty"))
        rq == << Req("DELETE", "staged", Itoa(id), net, t.err,
                     Honoured(net, TRUE)) >>
    IN  IF t.err THEN Out("transport", NilCert, << >>, after, rq)
        ELSE Out("none", NilCert, << >>, after, rq)

\* ------------------------------------------------------------ NewClient
\* a *string argument: nil, or a string (kept as its sequence of characters)
NilPtr == [nil |-> TRUE, val |-> << >>]
Ptr(s) == [nil |-> FALSE, val |-> s]

DigitChars == {"0", "1", "2", "3", "4", "5", "6", "7", "8", "9"}
DigitVal(c) == CHOOSE n \in 0 .. 9 : Digits[n + 1] = c

\* strconv.Atoi: an optional sign, then one or more decimal digits
Unsigned(s) == IF Len(s) > 0 /\ s[1] \in {"+", "-"} THEN Tail(s) ELSE s
AtoiSeqOk(s) ==
    /\ Len(Unsigned(s)) > 0
    /\ \A i \in 1 .. Len(Unsigned(s)) : Unsigned(s)[i] \in DigitChars

RECURSIVE DecimalValue(_)
DecimalValue(s) ==
    IF Len(s) = 0 THEN 0
    ELSE 10 * DecimalValue(SubSeq(s, 1, Len(s) - 1)) + DigitVal(s[Len(s)])

AtoiSeqVal(s) ==
    IF Len(s) > 0 /\ s[1] = "-" THEN 0 - DecimalValue(Unsigned(s))
    ELSE DecimalValue(Unsigned(s))

MaxPort == 65535
DefaultPort == 8008

\* Client.Host before the host argument is looked at
DefaultHost(rev) == IF rev = "curlCname" THEN "hector.cern.ch" ELSE ""

\* a nil *Client
NoClient == [host |-> "", port |-> 0]

\* a port check that lost its upper limit
InvalidPortNoUpperLimit(s) == ~AtoiSeqOk(s) \/ AtoiSeqVal(s) <= 0

\* err != nil || p <= 0 || p > 65535
InvalidPort(s) ==
    ~AtoiSeqOk(s) \/ AtoiSeqVal(s) <= 0 \/ AtoiSeqVal(s) > MaxPort

\* NewClient(host, port string) of part_002
NewClientStrings(host, port) ==
    IF InvalidPort(port.val)
    THEN [err |-> TRUE, client |-> NoClient]
    ELSE [err |-> FALSE,
          client |-> [host |-> host.val, port |-> AtoiSeqVal(port.val)]]

\* NewClient(host, port *string) of client.go and part_001: the defaults stay
\* where the argument is nil or empty
NewClientPointers(rev, host, port) ==
    LET h == IF ~host.nil /\ host.val # "" THEN host.val ELSE DefaultHost(rev)
    IN  IF ~port.nil /\ port.val # << >>
        THEN IF InvalidPort(port.val)
             THEN [err |-> TRUE, client |-> NoClient]
             ELSE [err |-> FALSE,
                   client |-> [host |-> h, port |-> AtoiSeqVal(port.val)]]
        ELSE [err |-> FALSE, client |-> [host |-> h, port |-> DefaultPort]]

NewClient(rev, host, port) ==
    IF rev = "curlList" THEN NewClientStrings(host, port)
    ELSE NewClientPointers(rev, host, port)

\* the revisions whose NewClient the repository holds
NewClientRevisions == {"curlList", "curlBaby", "curlCname"}

\* the characters port strings are drawn from, and the port strings
PortChars == {"0", "3", "5", "6", "-", "+", "x"}
PortStrings == UNION { [1 .. n -> PortChars] : n \in 0 .. MaxPortLen }
HostStrings == {"", "certmgr.cern.ch"}

\* the arguments a caller can pass: part_002 takes strings, the others pointers
HostArgs(rev) ==
    { Ptr(h) : h \in HostStrings } \cup
    (IF rev = "curlList" THEN {} ELSE {NilPtr})
PortArgs(rev) ==
    { Ptr(q) : q \in PortStrings } \cup
    (IF rev = "curlList" THEN {} ELSE {NilPtr})

\* NewClient not called (yet) with these arguments
Construction(host, port) ==
    [called |-> FALSE, host |-> host, port |-> port, err |-> FALSE,
     client |-> NoClient]
Constructed(host, port, res) ==
    [called |-> TRUE, host |-> host, port |-> port, err |-> res.err,
     client |-> res.client]

\* ------------------------------------------------------------ Configure
\* a provider attribute: null, unknown or a value
Attr(kind, val) == [kind |-> kind, val |-> val]

\* a types.Number: n is the number truncated toward zero, frac says whether it
\* has a fractional part
Number(n, frac) == [n |-> n, frac |-> frac]

\* NewClient(host string, port int), the constructor provider.go and
\* client_test.go call
NewClientInt(host, port) ==
    IF port <= 0 \/ port > MaxPort
    THEN [err |-> TRUE, client |-> NoClient]
    ELSE [err |-> FALSE, client |-> [host |-> host, port |-> port]]

\* what Configure leaves in resp: the diagnostics and ResourceData
Configured(errs, data) == [errs |-> errs, data |-> data]

\* the "Unknown ..." attribute errors both revisions start with
UnknownErrors(chost, cport) ==
    (IF chost.kind = "unknown" THEN << "Unknown certMgr API Host" >> ELSE << >>)
    \o (IF cport.kind = "unknown" THEN << "Unknown certMgr host Port" >>
        ELSE << >>)

\* a Configure in which a set environment variable wins over the block
ConfigureEnvFirst(rev, chost, cport, ehost, eport) ==
    IF UnknownErrors(chost, cport) # << >>
    THEN Configured(UnknownErrors(chost, cport), NoClient)
    ELSE
      LET host == IF ehost # "" THEN ehost ELSE chost.val
          port == IF eport # << >> THEN eport ELSE cport.val
          missing ==
            (IF host = "" THEN << "Missing certMgr API Host" >> ELSE << >>)
            \o (IF port = << >> THEN << "Missing certMgr Port" >> ELSE << >>)
          res == NewClient(rev, Ptr(host), Ptr(port))
      IN  IF missing # << >> THEN Configured(missing, NoClient)
          ELSE IF res.err
          THEN Configured(<< "Unable to Create certMgr API Client" >>, NoClient)
          ELSE Configured(<< >>, res.client)

\* Configure of README.md: port is a string attribute, the client is
\* NewClient(&host, &port)
ConfigureString(rev, chost, cport, ehost, eport) ==
    IF UnknownErrors(chost, cport) # << >>
    THEN Configured(UnknownErrors(chost, cport), NoClient)
    ELSE
      LET host == IF chost.kind # "null" THEN chost.val ELSE ehost
          port == IF cport.kind # "null" THEN cport.val ELSE eport
          missing ==
            (IF host = "" THEN << "Missing certMgr API Host" >> ELSE << >>)
            \o (IF port = << >> THEN << "Missing certMgr Port" >> ELSE << >>)
          res == NewClient(rev, Ptr(host), Ptr(port))
      IN  IF missing # << >> THEN Configured(missing, NoClient)
          ELSE IF res.err
          THEN Configured(<< "Unable to Create certMgr API Client" >>, NoClient)
          ELSE Configured(<< >>, res.client)

\* portInt64, _ := bf.Int64(); port = int(portInt64)
NumberToInt(num) == num.n

\* Configure of provider.go: port is a number attribute, CERTMGR_PORT is parsed
\* with strconv.Atoi, the client is NewClient(host, port)
ConfigureNumber(chost, cport, ehost, eport) ==
    IF UnknownErrors(chost, cport) # << >>
    THEN Configured(UnknownErrors(chost, cport), NoClient)
    ELSE IF cport.kind = "null" /\ eport # << >> /\ ~AtoiSeqOk(eport)
    THEN Configured(<< "Invalid ROGER_PORT Environment Variable" >>, NoClient)
    ELSE
      LET host == IF chost.kind # "null" THEN chost.val ELSE ehost
          port == IF cport.kind # "null" THEN NumberToInt(cport.val)
                  ELSE IF eport # << >> THEN AtoiSeqVal(eport)
                  ELSE 0
          missing ==
            (IF host = "" THEN << "Missing certMgr Host" >> ELSE << >>)
            \o (IF port = 0 THEN << "Missing certMgr Port" >> ELSE << >>)
          res == NewClientInt(host, port)
      IN  IF missing # << >> THEN Configured(missing, NoClient)
          ELSE IF res.err
          THEN Configured(<< "Unable to Create certMgr API Client" >>, NoClient)
          ELSE Configured(<< >>, res.client)

\* the provider revisions with the client revision each compiles against
ProviderRevisions ==
    { << "string", "curlBaby" >>, << "string", "curlCname" >>,
      << "number", "http" >> }

\* the values a configuration block and the environment can hold
ConfigHosts ==
    { Attr("null", ""), Attr("unknown", "") }
    \cup { Attr("value", h) : h \in HostStrings }
\* os.Getenv("CERTMGR_HOST")
EnvHosts == HostStrings \cup {"certmgr-test.cern.ch"}
ConfigPortStrings ==
    { << >>, << "0" >>, << "5" >>, << "-", "5" >>, << "x" >>, << "5", "x" >>,
      << "6", "5", "5", "3", "5" >>, << "6", "5", "5", "3", "6" >> }
ConfigNumbers ==
    { Number(n, frac) : n \in {0 - 5, 0, 5, MaxPort, MaxPort + 1},
                        frac \in BOOLEAN }
ConfigPorts(prev) ==
    IF prev = "string"
    THEN { Attr("null", << >>), Attr("unknown", << >>) }
         \cup { Attr("value", q) : q \in ConfigPortStrings }
    ELSE { Attr("null", Number(0, FALSE)), Attr("unknown", Number(0, FALSE)) }
         \cup { Attr("value", num) : num \in ConfigNumbers }

\* Configure not called (yet) with this configuration and environment
Provider(prev, chost, cport, ehost, eport) ==
    [rev |-> prev, chost |-> chost, cport |-> cport, ehost |-> ehost,
     eport |-> eport, done |-> FALSE, errs |-> << >>, data |-> NoClient]

\* ---------------------------------------------------------- resolveFQDN
\* a DNS name: its first four characters, the rest, and whether it ends in
\* the root dot
Name(first4, rest, dot) == [first4 |-> first4, rest |-> rest, dot |-> dot]
NoName == Name("", "", FALSE)

\* strings.TrimSuffix(name, ".")
TrimDot(name) == [name EXCEPT !.dot = FALSE]

\* strings.HasPrefix(name, "baby")
HasPrefixBaby(name) == name.first4 = "baby"

\* what resolveFQDN returns
Fqdn(name) == [err |-> FALSE, name |-> name]
NoFqdn == [err |-> TRUE, name |-> NoName]

RECURSIVE ResolveFrom(_, _)
\* part_002: for _, ip := range ips, from the i-th address on: an address that
\* is not IPv4 is skipped, and so is one whose PTR lookup gives no name
ResolveFrom(ips, i) ==
    IF i > Len(ips) THEN NoFqdn
    ELSE IF ~ips[i].v4 THEN ResolveFrom(ips, i + 1)
    ELSE IF ips[i].ptrerr THEN NoFqdn
    ELSE IF Len(ips[i].ptrs) > 0 THEN Fqdn(TrimDot(ips[i].ptrs[1]))
    ELSE ResolveFrom(ips, i + 1)

\* resolveFQDN of part_002
ResolvePtr(dns) ==
    IF dns.iperr THEN NoFqdn ELSE ResolveFrom(dns.ips, 1)

RECURSIVE ResolveBabyFrom(_, _)
\* part_001: the first IPv4 address decides; its first PTR name must start
\* with "baby"
ResolveBabyFrom(ips, i) ==
    IF i > Len(ips) THEN NoFqdn
    ELSE IF ~ips[i].v4 THEN ResolveBabyFrom(ips, i + 1)
    ELSE IF ips[i].ptrerr THEN NoFqdn
    ELSE IF Len(ips[i].ptrs) = 0 THEN NoFqdn
    ELSE IF HasPrefixBaby(TrimDot(ips[i].ptrs[1]))
    THEN Fqdn(TrimDot(ips[i].ptrs[1]))
    ELSE NoFqdn

\* resolveFQDN of part_001
ResolveBaby(dns) ==
    IF dns.iperr THEN NoFqdn ELSE ResolveBabyFrom(dns.ips, 1)

\* resolveFQDN of client.go: net.LookupCNAME(c.Host), returned as it is
ResolveCname(dns) ==
    IF dns.cnameerr THEN NoFqdn ELSE Fqdn(dns.cname)

resolveFQDN(rev, dns) ==
    IF rev = "curlList" THEN ResolvePtr(dns)
    ELSE IF rev = "curlBaby" THEN ResolveBaby(dns)
    ELSE ResolveCname(dns)

\* the revisions whose resolveFQDN the repository holds
ResolveRevisions == {"curlList", "curlBaby", "curlCname"}

\* what the name service can answer
DnsNames ==
    { Name("baby", "7.cern.ch", dot) : dot \in BOOLEAN }
    \cup { Name("hect", "or.cern.ch", dot) : dot \in BOOLEAN }
PtrLists == UNION { [1 .. n -> DnsNames] : n \in 0 .. MaxPtrs }
Address(v4, ptrerr, ptrs) == [v4 |-> v4, ptrerr |-> ptrerr, ptrs |-> ptrs]
Addresses ==
    { Address(v4, TRUE, << >>) : v4 \in BOOLEAN }
    \cup { Address(v4, FALSE, ptrs) : v4 \in BOOLEAN, ptrs \in PtrLists }
AddressLists == UNION { [1 .. n -> Addresses] : n \in 0 .. MaxAddrs }
DnsAnswers(iperr, ips, cnameerr, cname) ==
    [iperr |-> iperr, ips |-> ips, cnameerr |-> cnameerr, cname |-> cname]

\* resolveFQDN not called (yet) against these answers
Resolution(dns) == [called |-> FALSE, dns |-> dns, err |-> FALSE,
                    name |-> NoName]
NoResolution == Resolution(DnsAnswers(TRUE, << >>, TRUE, NoName))

\* ---------------------------------------------------------------- state
VARIABLES
    rs,       \* the resolveFQDN call: the DNS answers and, once called, its result
    prov,     \* the provider: its configuration and what Configure left
    nc,       \* the NewClient call: its arguments and, once called, its result
    crev,     \* the client revision
    rrev,     \* the controller revision ("none": the client is called directly)
    staged,   \* the API's staged entries, in creation order
    issued,   \* issued[n]: the hostname id n was staged for (history)
    now,      \* the clock time.Now() reads
    ret,      \* the client call that just returned, and what it returned
    reqs,     \* the requests of the running (or just finished) operation
    del,      \* the DeleteCertificate(hostname) in progress
    tf,       \* the resource's tracked state
    rop       \* the controller operation that just returned, and its response

vars == << rs, prov, nc, crev, rrev, staged, issued, now, ret, reqs, del, tf, rop >>

\* How one client call fares: the host does not resolve, the request gets no
\* answer, the API carries it out, or the API refuses it with an error document
IoOutcomes == {"resolve", "down", "ok"} \cup ErrDocs
Dns(io) == IF io = "resolve" THEN "fail" ELSE "ok"
Net(io) == IF io \in ErrDocs THEN "refused"
           ELSE IF io = "down" THEN "down" ELSE "ok"
Doc(io) == IF io \in ErrDocs THEN io ELSE "text"
\* the loop of DeleteCertificate(hostname) uses the name resolved for the
\* listing
LoopOutcomes == IoOutcomes \ {"resolve"}

\* certificateResourceModel: ID is types.String in v1 and types.Int64 in v2
NullId(rv) == IF rv = "v1" THEN "" ELSE -1
IdValue(rv, id) == IF rv = "v1" THEN Itoa(id) ELSE id
NullTime == -1

Model(id, hostname, last_updated) ==
    [exists |-> TRUE, id |-> id, hostname |-> hostname,
     last_updated |-> last_updated]

\* no resource: the state after RemoveResource, or before Create
NoResource(rv) ==
    [exists |-> FALSE, id |-> NullId(rv), hostname |-> "",
     last_updated |-> NullTime]

Ret(op, host, id, req, mark, out) ==
    [op |-> op, host |-> host, id |-> id, req |-> req, mark |-> mark,
     err |-> out.err, cert |-> out.cert, objects |-> out.objects,
     dns |-> "none"]

\* the same with what the name service answered to the operation's lookup
Resolved(r, dns) == [r EXCEPT !.dns = dns]

\* no client call has just returned
NoRet == Ret("none", "", -1, "", 0, Out("none", NilCert, << >>, << >>, << >>))

NoDelete == [on |-> FALSE, by |-> "", host |-> "", ids |-> << >>, i |-> 0,
             mark |-> 0]

Response(op, errs, state) == [op |-> op, errs |-> errs, state |-> state]

\* the hostname of the plan a Create or Update was called with
Planned(resp, h) == [op |-> resp.op, errs |-> resp.errs, state |-> resp.state,
                     plan |-> h]

\* no controller operation has just returned
NoResponse(rv) == Planned(Response("none", << >>, NoResource(rv)), "")

\* resp.Diagnostics.HasError()
HasError(resp) == Len(resp.errs) > 0

\* Terraform keeps the state a handler returns unless it reports an error
Commit(old, resp) == IF HasError(resp) THEN old ELSE resp.state

\* the hostnames the API staged entries for, after a request
IssuedAfter(before, after, hostname) ==
    IF Len(after) > Len(before) THEN Append(issued, hostname) ELSE issued

Idle == ~del.on

Init ==
    /\ \E p \in Revisions : crev = p[1] /\ rrev = p[2]
    /\ staged = << >>
    /\ issued = << >>
    /\ now = 0
    /\ ret = NoRet
    /\ reqs = << >>
    /\ del = NoDelete
    /\ tf = NoResource(rrev)
    /\ rop = NoResponse(rrev)
    /\ nc = Construction(NilPtr, NilPtr)
    /\ prov = Provider("string", Attr("null", ""), Attr("null", << >>),
                       "", << >>)
    /\ rs = NoResolution

\* ------------------------------------------------- calls on the client
\* cli.CreateCertificate(hostname)
CallCreate(h) ==
    /\ Idle /\ rrev = "none" /\ Len(issued) < MaxId
    /\ \E io \in IoOutcomes :
       \E out \in { CreateCertificate(crev, staged, Len(issued) + 1, h,
                                      Dns(io), Net(io), Doc(io)) } :
             /\ staged' = out.staged
             /\ issued' = IssuedAfter(staged, out.staged, h)
             /\ ret' = Resolved(Ret("Create", h, -1, "", 0, out),
                                Dns(io))
             /\ reqs' = out.reqs
    /\ UNCHANGED << rs, prov, nc, crev, rrev, now, del, tf, rop >>

\* cli.GetCertificate(hostname)
CallGet(h) ==
    /\ Idle /\ rrev = "none"
    /\ \E io \in IoOutcomes :
       \E out \in { GetCertificate(crev, staged, h,
                                   Dns(io), Net(io), Doc(io)) } :
             /\ ret' = Resolved(Ret("Get", h, -1, "", 0, out),
                                Dns(io))
             /\ reqs' = out.reqs
    /\ UNCHANGED << rs, prov, nc, crev, rrev, staged, issued, now, del, tf, rop >>

\* readCert.Requestor = r; cli.UpdateCertificate(*readCert)
\* (UpdateCertificate(hostname, *readCert) where the revision takes the key);
\* the record is the one the last Create or Get handed back
CallUpdate(r) ==
    /\ Idle /\ rrev = "none"
    /\ ret.op \in {"Create", "Get"} /\ ret.err = "none"
    /\ ret.host \in Hostnames
    /\ \E io \in IoOutcomes :
       \E cert \in { [ret.cert EXCEPT !.requestor = r] } :
       \E out \in { IF DeletesByHostname(crev)
                    THEN UpdateByPost(crev, staged, cert,
                                      Dns(io), Net(io), Doc(io))
                    ELSE UpdateByGet(crev, staged, ret.host, cert,
                                     Dns(io), Net(io), Doc(io)) } :
             /\ staged' = out.staged
             /\ ret' = Resolved(Ret("Update", ret.host, cert.id, r, 0, out),
                                Dns(io))
             /\ reqs' = out.reqs
    /\ UNCHANGED << rs, prov, nc, crev, rrev, issued, now, del, tf, rop >>

\* cli.DeleteCertificate(id)
CallDeleteId(id) ==
    /\ Idle /\ rrev = "none" /\ ~DeletesByHostname(crev)
    /\ \E io \in IoOutcomes :
       \E out \in { DeleteById(crev, staged, id,
                               Dns(io), Net(io), Doc(io)) } :
             /\ staged' = out.staged
             /\ ret' = Resolved(Ret("Delete", "", id, "", 0, out),
                                Dns(io))
             /\ reqs' = out.reqs
    /\ UNCHANGED << rs, prov, nc, crev, rrev, issued, now, del, tf, rop >>

\* ---------------------------------------- DeleteCertificate(hostname)
\* certificateResource.Delete (v2) after r.client.DeleteCertificate(hostname)
\* returned: AddError and return, or resp.State.RemoveResource
DeleteResponse(rv, state, err) ==
    IF err # "none"
    THEN Response("Delete", << "Error deleting certificate" >>, state)
    ELSE Response("Delete", << >>, NoResource(rv))

\* DeleteCertificate(hostname) returns err to its caller
DeleteReturns(by, h, mark, err, dns) ==
    /\ del' = NoDelete
    /\ ret' = Resolved(Ret("Delete", h, -1, "", mark,
                           Out(err, NilCert, << >>, << >>, << >>)),
                       dns)
    /\ IF by = "resource"
       THEN /\ rop' = Planned(DeleteResponse(rrev, tf, err), "")
            /\ tf' = Commit(tf, DeleteResponse(rrev, tf, err))
       ELSE UNCHANGED << tf, rop >>

\* the listing request of DeleteCertificate(hostname); an empty listing
\* returns nil at once
DeleteBegin(by, h) ==
    /\ Idle /\ DeletesByHostname(crev)
    /\ \E io \in IoOutcomes :
       \E out \in { DeleteListing(crev, staged, h,
                                  Dns(io), Net(io), Doc(io)) } :
       \E ids \in { [k \in 1 .. Len(out.objects) |-> out.objects[k].id] } :
             /\ reqs' = out.reqs
             /\ IF out.err # "none" \/ Len(ids) = 0
                THEN DeleteReturns(by, h, Len(issued) + 1, out.err, Dns(io))
                ELSE /\ del' = [on |-> TRUE, by |-> by, host |-> h,
                                ids |-> ids, i |-> 1,
                                mark |-> Len(issued) + 1]
                     /\ ret' = NoRet
                     /\ rop' = NoResponse(rrev)
                     /\ UNCHANGED tf
    /\ UNCHANGED << rs, prov, nc, crev, rrev, staged, issued, now >>

\* one turn of `for _, event := range events.Objects`
DeleteLoop ==
    /\ del.on
    /\ \E io \in LoopOutcomes :
       \E out \in { DeleteEvent(crev, staged, del.ids[del.i],
                                Net(io), Doc(io)) } :
             /\ staged' = out.staged
             /\ reqs' = reqs \o out.reqs
             /\ IF out.err # "none" \/ del.i = Len(del.ids)
                THEN DeleteReturns(del.by, del.host, del.mark, out.err, "ok")
                ELSE /\ del' = [del EXCEPT !.i = del.i + 1]
                     /\ UNCHANGED << ret, tf, rop >>
    /\ UNCHANGED << rs, prov, nc, crev, rrev, issued, now >>

\* cli.DeleteCertificate(hostname)
CallDeleteHost(h) == rrev = "none" /\ DeleteBegin("client", h)

\* ------------------------------------------------------- environment
\* Something else happens between two operations; ret and rop describe only
\* the operation that has just returned.
Between ==
    IF Idle THEN ret' = NoRet /\ rop' = NoResponse(rrev) /\ reqs' = << >>
    ELSE UNCHANGED << ret, rop, reqs >>

\* another user of the API stages an entry
OtherCreate(h) ==
    /\ Len(issued) < MaxId
    /\ staged' = ApiPostStaged(staged, Len(issued) + 1, h)
    /\ issued' = Append(issued, h)
    /\ Between
    /\ UNCHANGED << rs, prov, nc, crev, rrev, now, del, tf >>

\* the staged entry of an id leaves the API (issued, or removed by its owner)
OtherDelete(id) ==
    /\ \E i \in 1 .. Len(staged) : staged[i].id = id
    /\ staged' = ApiDeleteStaged(staged, id)
    /\ Between
    /\ UNCHANGED << rs, prov, nc, crev, rrev, issued, now, del, tf >>

\* time passes (only the controller reads the clock)
Tick ==
    /\ rrev # "none" /\ now < MaxClock
    /\ now' = now + 1
    /\ Between
    /\ UNCHANGED << rs, prov, nc, crev, rrev, staged, issued, del, tf >>

\* ------------------------------------------------------- the controller
\* the hostname Create hands to the client: plan.Hostname.String() in v1,
\* plan.Hostname.ValueString() in v2
CreateArg(rv, h) == IF rv = "v1" THEN Quote(h) ELSE h

\* a Create that sets the state before it looks at the client's error
CreateResponsePartial(rv, h, t, out) ==
    IF out.err # "none"
    THEN Response("Create", << "Error creating certificate" >>,
                  Model(NullId(rv), h, t))
    ELSE Response("Create", << >>, Model(IdValue(rv, out.cert.id), h, t))

\* certificateResource.Create after r.client.CreateCertificate returned
CreateResponse(rv, h, t, out) ==
    IF out.err # "none"
    THEN Response("Create", << "Error creating certificate" >>, NoResource(rv))
    ELSE Response("Create", << >>, Model(IdValue(rv, out.cert.id), h, t))

\* a Read that writes the id it found and keeps the stamp of the prior state
ReadResponseUnstamped(rv, state, t, out) ==
    IF out.err # "none"
    THEN Response("Read", << "Error Reading certificate" >>, state)
    ELSE Response("Read", << >>,
                  Model(IdValue(rv, out.cert.id), state.hostname,
                        state.last_updated))

\* certificateResource.Read after r.client.GetCertificate returned
ReadResponse(rv, state, t, out) ==
    IF out.err # "none"
    THEN IF rv = "v1" /\ out.err = ErrNoCertificates
         THEN Response("Read", << >>, NoResource(rv))
         ELSE Response("Read", << "Error Reading certificate" >>, state)
    ELSE Response("Read",
                  IF rv = "v1"
                  THEN << "this is the state id Reading certMgr certificate" >>
                  ELSE << >>,
                  Model(IdValue(rv, out.cert.id), state.hostname, t))

\* certificateResource.Update (v1) after UpdateCertificate and GetCertificate,
\* both keyed by plan.ID.ValueString()
UpdateResponseV1(plan, t, out1, out2) ==
    IF out1.err # "none"
    THEN Response("Update", << "Error Updating certMgr certificate" >>, plan.prior)
    ELSE IF out2.err # "none"
    THEN Response("Update", << "Error Reading certMgr certificate" >>, plan.prior)
    ELSE Response("Update", << >>, Model(plan.id, out2.cert.hostname, t))

\* certificateResource.Update (v2) after GetCertificate(plan hostname) and
\* UpdateCertificate(*certificate)
UpdateResponseV2(plan, t, out1, out2) ==
    IF out1.err # "none"
    THEN Response("Update", << "Error fetching certificate" >>, plan.prior)
    ELSE IF out2.err # "none"
    THEN Response("Update", << "Error updating certificate" >>, plan.prior)
    ELSE Response("Update", << >>, Model(plan.id, plan.hostname, t))

\* certificateResource.Delete (v1) after r.client.DeleteCertificate(idInt)
\* returned; a Delete without error diagnostics removes the resource
DeleteResponseV1(state, out) ==
    IF out.err # "none"
    THEN Response("Delete", << "Error Deleting certMgr certificate" >>, state)
    ELSE Response("Delete", << >>, NoResource("v1"))

\* the identities `terraform import` is given
ImportIds == { Itoa(n) : n \in 1 .. MaxId }

\* resource.ImportStatePassthroughID(ctx, path.Root("id"), req, resp): the id
\* string is set at "id", every other attribute stays null; a string does not
\* convert to the Int64 id of the second revision
ImportResponse(rv, ident) ==
    IF rv = "v1"
    THEN Response("Import", << >>, Model(ident, "", NullTime))
    ELSE Response("Import", << "Value Conversion Error" >>, NoResource(rv))

ImportState(ident) ==
    /\ Idle /\ rrev # "none" /\ ~tf.exists
    /\ \E resp \in { ImportResponse(rrev, ident) } :
          /\ rop' = Planned(resp, "")
          /\ tf' = Commit(tf, resp)
    /\ ret' = NoRet
    /\ reqs' = << >>
    /\ UNCHANGED << rs, prov, nc, crev, rrev, staged, issued, now, del >>

Create(h) ==
    /\ Idle /\ rrev # "none" /\ ~tf.exists /\ Len(issued) < MaxId
    /\ \E io \in IoOutcomes :
       \E arg \in { CreateArg(rrev, h) } :
       \E out \in { CreateCertificate(crev, staged, Len(issued) + 1, arg,
                                      Dns(io), Net(io), Doc(io)) } :
       \E resp \in { CreateResponse(rrev, h, now, out) } :
             /\ staged' = out.staged
             /\ issued' = IssuedAfter(staged, out.staged, arg)
             /\ ret' = Resolved(Ret("Create", arg, -1, "", 0, out),
                                Dns(io))
             /\ reqs' = out.reqs
             /\ rop' = Planned(resp, h)
             /\ tf' = Commit(tf, resp)
    /\ UNCHANGED << rs, prov, nc, crev, rrev, now, del >>

Read ==
    /\ Idle /\ rrev # "none" /\ tf.exists
    /\ \E io \in IoOutcomes :
       \E out \in { GetCertificate(crev, staged, tf.hostname,
                                   Dns(io), Net(io), Doc(io)) } :
       \E resp \in { ReadResponse(rrev, tf, now, out) } :
             /\ ret' = Resolved(Ret("Get", tf.hostname, -1, "", 0, out),
                                Dns(io))
             /\ reqs' = out.reqs
             /\ rop' = Planned(resp, "")
             /\ tf' = Commit(tf, resp)
    /\ UNCHANGED << rs, prov, nc, crev, rrev, staged, issued, now, del >>

\* Update (v1): var cert; cert.Hostname = plan.Hostname.String();
\* UpdateCertificate(plan.ID.ValueString(), cert); GetCertificate(plan.ID.ValueString())
UpdateV1(h) ==
    /\ rrev = "v1"
    /\ \E io1 \in IoOutcomes :
       \E plan \in { [id |-> tf.id, hostname |-> h, prior |-> tf] } :
       \E out1 \in { UpdateByGet(crev, staged, plan.id,
                                 Certificate(0, Quote(h), ""),
                                 Dns(io1), Net(io1), Doc(io1)) } :
       \E io2 \in IF out1.err # "none" THEN {"ok"} ELSE IoOutcomes :
       \E out2 \in { GetCertificate(crev, staged, plan.id,
                                    Dns(io2), Net(io2), Doc(io2)) } :
       \E resp \in { UpdateResponseV1(plan, now, out1, out2) } :
             /\ ret' = Ret("Get", plan.id, -1, "", 0,
                           IF out1.err # "none" THEN out1 ELSE out2)
             /\ reqs' = IF out1.err # "none" THEN out1.reqs
                        ELSE out1.reqs \o out2.reqs
             /\ rop' = Planned(resp, h)
             /\ tf' = Commit(tf, resp)
             /\ UNCHANGED staged

\* Update (v2): GetCertificate(plan.Hostname.ValueString());
\* UpdateCertificate(*certificate)
UpdateV2(h) ==
    /\ rrev = "v2"
    /\ \E io1 \in IoOutcomes :
       \E plan \in { [id |-> tf.id, hostname |-> h, prior |-> tf] } :
       \E out1 \in { GetCertificate(crev, staged, h,
                                    Dns(io1), Net(io1), Doc(io1)) } :
       \E io2 \in IF out1.err # "none" THEN {"ok"} ELSE IoOutcomes :
       \E out2 \in { IF out1.err # "none" THEN out1
                     ELSE UpdateByPost(crev, staged, out1.cert,
                                       Dns(io2), Net(io2), Doc(io2)) } :
       \E resp \in { UpdateResponseV2(plan, now, out1, out2) } :
             /\ staged' = out2.staged
             /\ ret' = IF out1.err # "none"
                       THEN Ret("Get", h, -1, "", 0, out1)
                       ELSE Ret("Update", h, out1.cert.id,
                                out1.cert.requestor, 0, out2)
             /\ reqs' = IF out1.err # "none" THEN out1.reqs
                        ELSE out1.reqs \o out2.reqs
             /\ rop' = Planned(resp, h)
             /\ tf' = Commit(tf, resp)

Update(h) ==
    /\ Idle /\ tf.exists
    /\ UpdateV1(h) \/ UpdateV2(h)
    /\ UNCHANGED << rs, prov, nc, crev, rrev, issued, now, del >>

\* Delete (v1): strconv.Atoi(state.ID.ValueString()), DeleteCertificate(idInt)
DeleteV1 ==
    /\ rrev = "v1"
    /\ IF ~AtoiOk(tf.id)
       THEN /\ rop' = Planned(Response("Delete", << "Invalid ID Format" >>, tf), "")
            /\ ret' = NoRet
            /\ reqs' = << >>
            /\ UNCHANGED << staged, tf >>
       ELSE \E io \in IoOutcomes :
            \E out \in { DeleteById(crev, staged, AtoiVal(tf.id),
                                    Dns(io), Net(io), Doc(io)) } :
            \E resp \in { DeleteResponseV1(tf, out) } :
                  /\ staged' = out.staged
                  /\ ret' = Resolved(Ret("Delete", "", AtoiVal(tf.id), "", 0, out),
                                     Dns(io))
                  /\ reqs' = out.reqs
                  /\ rop' = Planned(resp, "")
                  /\ tf' = Commit(tf, resp)
    /\ UNCHANGED << rs, prov, nc, crev, rrev, issued, now, del >>

\* Delete (v2): DeleteCertificate(state.Hostname.ValueString())
DeleteV2 ==
    /\ rrev = "v2"
    /\ DeleteBegin("resource", tf.hostname)

Delete ==
    /\ Idle /\ tf.exists
    /\ DeleteV1 \/ DeleteV2

\* ------------------------------------------------------ specification
Next ==
    \/ \E h \in Hostnames : CallCreate(h)
    \/ \E h \in Hostnames : CallGet(h)
    \/ \E r \in Requestors : CallUpdate(r)
    \/ \E id \in 1 .. MaxId : CallDeleteId(id)
    \/ \E h \in Hostnames : CallDeleteHost(h)
    \/ DeleteLoop
    \/ \E h \in Hostnames : Create(h)
    \/ \E ident \in ImportIds : ImportState(ident)
    \/ Read
    \/ \E h \in Hostnames : Update(h)
    \/ Delete
    \/ \E h \in Hostnames : OtherCreate(h)
    \/ \E id \in 1 .. MaxId : OtherDelete(id)
    \/ Tick

Spec == Init /\ [][Next]_vars

\* ------------------------------------------- specification of NewClient
\* the arguments are drawn, then NewClient is applied to them
InitNewClient ==
    /\ crev \in NewClientRevisions /\ rrev = "none"
    /\ staged = << >> /\ issued = << >> /\ now = 0
    /\ ret = NoRet /\ reqs = << >> /\ del = NoDelete
    /\ tf = NoResource(rrev) /\ rop = NoResponse(rrev)
    /\ \E host \in HostArgs(crev) : \E port \in PortArgs(crev) :
          nc = Construction(host, port)
    /\ prov = Provider("string", Attr("null", ""), Attr("null", << >>),
                       "", << >>)
    /\ rs = NoResolution

CallNewClient ==
    /\ ~nc.called
    /\ nc' = Constructed(nc.host, nc.port, NewClient(crev, nc.host, nc.port))
    /\ UNCHANGED << rs, prov, crev, rrev, staged, issued, now, ret, reqs, del,
                    tf, rop >>

NextNewClient == CallNewClient

SpecNewClient == InitNewClient /\ [][NextNewClient]_vars

\* ------------------------------------------- specification of Configure
\* the configuration block and the environment are drawn, then Configure runs
InitConfigure ==
    /\ \E p \in ProviderRevisions :
       \E chost \in ConfigHosts : \E cport \in ConfigPorts(p[1]) :
       \E ehost \in EnvHosts : \E eport \in ConfigPortStrings :
          /\ crev = p[2]
          /\ prov = Provider(p[1], chost, cport, ehost, eport)
    /\ rrev = "none"
    /\ staged = << >> /\ issued = << >> /\ now = 0
    /\ ret = NoRet /\ reqs = << >> /\ del = NoDelete
    /\ tf = NoResource(rrev) /\ rop = NoResponse(rrev)
    /\ nc = Construction(NilPtr, NilPtr)
    /\ rs = NoResolution

Configure ==
    /\ ~prov.done
    /\ \E out \in { IF prov.rev = "string"
                     THEN ConfigureString(crev, prov.chost, prov.cport,
                                          prov.ehost, prov.eport)
                     ELSE ConfigureNumber(prov.chost, prov.cport,
                                          prov.ehost, prov.eport) } :
          prov' = [prov EXCEPT !.done = TRUE, !.errs = out.errs,
                               !.data = out.data]
    /\ UNCHANGED << rs, nc, crev, rrev, staged, issued, now, ret, reqs, del,
                    tf, rop >>

NextConfigure == Configure

SpecConfigure == InitConfigure /\ [][NextConfigure]_vars

\* ----------------------------------------- specification of resolveFQDN
\* the answers of the name service are drawn, then resolveFQDN runs; the CNAME
\* answer is drawn for the revision that asks for it
InitResolve ==
    /\ crev \in ResolveRevisions /\ rrev = "none"
    /\ staged = << >> /\ issued = << >> /\ now = 0
    /\ ret = NoRet /\ reqs = << >> /\ del = NoDelete
    /\ tf = NoResource(rrev) /\ rop = NoResponse(rrev)
    /\ nc = Construction(NilPtr, NilPtr)
    /\ prov = Provider("string", Attr("null", ""), Attr("null", << >>),
                       "", << >>)
    /\ \E iperr \in BOOLEAN :
       \E ips \in IF iperr THEN {<< >>} ELSE AddressLists :
       \E cnameerr \in IF crev = "curlCname" THEN BOOLEAN ELSE {TRUE} :
       \E cname \in IF cnameerr THEN {NoName} ELSE DnsNames :
          rs = Resolution(DnsAnswers(iperr, ips, cnameerr, cname))

CallResolve ==
    /\ ~rs.called
    /\ \E out \in { resolveFQDN(crev, rs.dns) } :
          rs' = [rs EXCEPT !.called = TRUE, !.err = out.err,
                           !.name = out.name]
    /\ UNCHANGED << prov, nc, crev, rrev, staged, issued, now, ret, reqs, del,
                    tf, rop >>

NextResolve == CallResolve

SpecResolve == InitResolve /\ [][NextResolve]_vars

\* ------------------------------------------------------------- claims
\* the request of the call that just returned reached the API and was answered
Answered == Len(reqs) > 0 /\ reqs[Len(reqs)].net = "ok"

\* the staged entries the API holds for a hostname
StagedFor(h) == ApiListStaged(staged, h)

\* C1: after CreateCertificate(h) succeeded and the API recorded the entry, a
\* GetCertificate(h) that is answered succeeds with a record whose hostname is
\* h, the hostname of the record Create returned.
C1_CreateThenGet ==
    [][ ( /\ ret.op = "Create" /\ ret.err = "none" /\ ret.host \in Hostnames
          /\ \E i \in 1 .. Len(staged) : staged[i] = ret.cert
          /\ ret'.op = "Get" /\ ret'.host = ret.host
          /\ Answered' )
        => ( /\ ret'.err = "none"
             /\ ret'.cert.hostname = ret.host
             /\ ret'.cert.hostname = ret.cert.hostname ) ]_vars

\* C2: a GetCertificate whose listing holds n >= 2 entries returns entry n of
\* it, and none of the entries before it.
C2_GetReturnsLast ==
    (ret.op = "Get" /\ Len(ret.objects) >= 2)
    => ( /\ ret.err = "none"
         /\ ret.cert = ret.objects[Len(ret.objects)]
         /\ \A i \in 1 .. Len(ret.objects) - 1 : ret.cert # ret.objects[i] )

C2_Witness ==
    /\ ret.op = "Get" /\ ret.err = "none" /\ Len(ret.objects) = 3
    /\ ret.cert.id = ret.objects[3].id
    /\ ret.objects[1].id < ret.objects[2].id

\* C3: after DeleteCertificate(h) returned no error (and nobody staged an
\* entry for h since it listed), an answered GetCertificate(h) returns NotFound.
C3_DeleteThenGet ==
    [][ ( /\ ret.op = "Delete" /\ ret.host \in Hostnames /\ ret.err = "none"
          /\ \A n \in ret.mark .. Len(issued) : issued[n] # ret.host
          /\ ret'.op = "Get" /\ ret'.host = ret.host
          /\ Answered' )
        => ret'.err = ErrNoCertificates ]_vars

\* C4: after UpdateCertificate returned no error for a staged certificate
\* whose requestor was set to r, an answered GetCertificate of its hostname
\* returns a record with that hostname and with requestor r.
C4_UpdateThenGet ==
    [][ ( /\ ret.op = "Update" /\ ret.err = "none" /\ ret.host \in Hostnames
          /\ \E i \in 1 .. Len(staged) : staged[i].id = ret.id
          /\ ret'.op = "Get" /\ ret'.host = ret.host
          /\ Answered' )
        => ( /\ ret'.err = "none"
             /\ ret'.cert.hostname = ret.host
             /\ ret'.cert.requestor = ret.req ) ]_vars

\* C6: an answered GetCertificate returns NotFound and no record when the API
\* holds no staged entry of the hostname, and returns a record only when it
\* holds one.
C6_NotFoundWhenEmpty ==
    (ret.op = "Get" /\ ret.host \in Hostnames /\ Answered)
    => ( /\ StagedFor(ret.host) = << >>
            => (ret.err = ErrNoCertificates /\ ret.cert = NilCert)
         /\ ret.cert # NilCert => StagedFor(ret.host) # << >> )

\* C7: a Read whose GetCertificate returned NotFound removes the resource and
\* reports no error; one whose GetCertificate returned another error reports
\* an error and leaves the tracked state as it was.
C7_ReadOnError ==
    [][ (rop'.op = "Read" /\ rop' # rop /\ ret'.err # "none")
        => IF ret'.err = ErrNoCertificates
           THEN ~tf'.exists /\ ~HasError(rop')
           ELSE HasError(rop') /\ tf' = tf ]_vars

\* C8: after Create, if CreateCertificate succeeded the state holds the id the
\* client returned, the planned hostname and the time of the call, and no
\* error is reported; if it failed an error is reported and the state holds
\* nothing.
C8_CreateStoresOrNothing ==
    rop.op = "Create"
    => IF ret.err = "none"
       THEN /\ ~HasError(rop)
            /\ tf = rop.state
            /\ tf.exists
            /\ tf.id = IdValue(rrev, ret.cert.id)
            /\ tf.hostname = rop.plan
            /\ tf.last_updated = now
       ELSE /\ HasError(rop)
            /\ rop.state = NoResource(rrev)
            /\ tf = NoResource(rrev)

C8_Witness ==
    /\ rop.op = "Create" /\ ret.err = "none" /\ ret.cert.id = 2
    /\ tf.exists /\ tf.last_updated = 1 /\ now = 1

C10_DeleteIdThenGet ==
    [][ ( /\ ret.op = "Delete" /\ ret.err = "none"
          /\ ret.id \in 1 .. Len(issued)
          /\ \A n \in 1 .. Len(issued) :
               (issued[n] = issued[ret.id]) <=> (n = ret.id)
          /\ ret'.op = "Get" /\ ret'.host = issued[ret.id]
          /\ Answered' )
        => ret'.err = ErrNoCertificates ]_vars

\* what the port argument denotes
PortGiven == ~nc.port.nil /\ nc.port.val # << >>
PortIsInteger == ~nc.port.nil /\ AtoiSeqOk(nc.port.val)
PortInRange ==
    PortIsInteger /\ AtoiSeqVal(nc.port.val) >= 1
                  /\ AtoiSeqVal(nc.port.val) <= MaxPort

\* C5 as stated: NewClient succeeds for every port in 1..65535 and fails,
\* returning no client, for every port that is <= 0, > 65535 or not an integer.
C5_AsStated ==
    nc.called
    => ( /\ PortInRange => ~nc.err
         /\ ~PortInRange => (nc.err /\ nc.client = NoClient) )

\* C5 amended: NewClient succeeds, with that port, for every port string that
\* denotes an integer in 1..65535; it fails, returning no client, for every
\* non-empty port string that is not an integer, is <= 0 or is > 65535; for a
\* nil or empty port NewClient(host, port *string) succeeds with the default
\* port 8008 and NewClient(host, port string) fails.
C5_NewClientPort ==
    nc.called
    => ( /\ PortInRange
            => (~nc.err /\ nc.client.port = AtoiSeqVal(nc.port.val))
         /\ (PortGiven /\ ~PortInRange)
            => (nc.err /\ nc.client = NoClient)
         /\ ~PortGiven
            => IF crev = "curlList"
               THEN nc.err /\ nc.client = NoClient
               ELSE ~nc.err /\ nc.client.port = DefaultPort )

C5_Witness ==
    /\ nc.called /\ crev = "curlCname"
    /\ nc.port = Ptr(<< "6", "5", "5", "3", "5" >>)
    /\ ~nc.err /\ nc.client.port = 65535

\* C11: the Read that follows Import(id) looks the certificate up with the
\* imported identity and ends with a state whose id is the imported id.
C11_ImportThenRead ==
    [][ (rop.op = "Import" /\ ~HasError(rop) /\ rop'.op = "Read")
        => ( /\ Len(reqs') > 0 => reqs'[1].key = rop.state.id
             /\ tf'.exists /\ tf'.id = rop.state.id ) ]_vars

\* the host and port the configuration and the environment give, the
\* configuration block first
HostMissing ==
    IF prov.chost.kind = "value" THEN prov.chost.val = "" ELSE prov.ehost = ""
PortFromEnv == prov.cport.kind = "null"
PortMissing == PortFromEnv /\ prov.eport = << >>
PortStringBad(q) ==
    ~AtoiSeqOk(q) \/ AtoiSeqVal(q) < 1 \/ AtoiSeqVal(q) > MaxPort
PortBad ==
    IF PortFromEnv THEN PortStringBad(prov.eport)
    ELSE IF prov.rev = "string" THEN PortStringBad(prov.cport.val)
    ELSE prov.cport.val.frac \/ prov.cport.val.n < 1
                             \/ prov.cport.val.n > MaxPort

\* C12: when the host is missing or empty, or the port is missing, not an
\* integer or outside 1..65535, Configure ends with an error diagnostic, hands
\* no client to the resources and no request has been issued.
C12_ConfigureRejects ==
    ( /\ prov.done
      /\ prov.chost.kind # "unknown" /\ prov.cport.kind # "unknown"
      /\ (HostMissing \/ PortMissing \/ PortBad) )
    => (Len(prov.errs) > 0 /\ prov.data = NoClient /\ reqs = << >>)

\* C13: once a resource has an id, no controller Read or Update changes it,
\* also when further entries of the hostname were staged meanwhile.
C13_IdImmutable ==
    [][ (tf.exists /\ rop'.op \in {"Read", "Update"} /\ tf'.exists)
        => tf'.id = tf.id ]_vars

\* C14: a resource becomes tracked only by a successful Create and becomes
\* absent only by a successful Delete or a Read that gets NotFound, and those
\* operations do move it; an operation that fails leaves it as it was.
C14_Lifecycle ==
    [][ rop'.op \in {"Create", "Read", "Update", "Delete"}
        => ( /\ (HasError(rop') /\ ret'.err # ErrNoCertificates) => tf' = tf
             /\ (~tf.exists /\ tf'.exists) => rop'.op = "Create"
             /\ (tf.exists /\ ~tf'.exists)
                => \/ rop'.op = "Delete"
                   \/ rop'.op = "Read" /\ ret'.err = ErrNoCertificates
             /\ (rop'.op = "Create" /\ ~HasError(rop')) => tf'.exists
             /\ (rop'.op = "Delete" /\ ~HasError(rop')) => ~tf'.exists
             /\ (rop'.op = "Read" /\ ret'.err = ErrNoCertificates)
                => ~tf'.exists ) ]_vars

\* C15: Update first fetches the record by the planned hostname, then sends
\* the record with the planned fields to UpdateCertificate and stamps
\* last_updated; when the fetch or the update call fails, the state is not
\* written and an error is reported.
C15_UpdateFetchMergeStamp ==
    [][ rop'.op = "Update"
        => ( /\ Len(reqs') > 0
                => (reqs'[1].m = "GET" /\ reqs'[1].key = rop'.plan)
             /\ IF ret'.err # "none"
                THEN HasError(rop') /\ tf' = tf
                ELSE /\ ~HasError(rop')
                     /\ Len(reqs') = 2
                     /\ reqs'[2].m = "POST" /\ reqs'[2].path = "certificate"
                     /\ tf'.hostname = rop'.plan
                     /\ tf'.last_updated = now ) ]_vars

IPv4Addresses ==
    IF rs.dns.iperr THEN << >>
    ELSE SelectSeq(rs.dns.ips, LAMBDA a : a.v4)

\* C17: resolveFQDN returns the first PTR name, without its trailing dot, of
\* the first IPv4 address of the forward lookup, and fails when there is no
\* IPv4 address or when that address has no PTR record.
C17_FirstPtrOfFirstIPv4 ==
    rs.called
    => IF Len(IPv4Addresses) = 0 THEN rs.err
       ELSE IF IPv4Addresses[1].ptrerr \/ Len(IPv4Addresses[1].ptrs) = 0
       THEN rs.err
       ELSE ~rs.err /\ rs.name = TrimDot(IPv4Addresses[1].ptrs[1])

\* C18: a Create, Read or Update that completes without error leaves the
\* tracked resource stamped with the current time, and an operation that
\* fails, or a Delete, leaves last_updated as it was.
C18_LastUpdatedStamp ==
    [][ rop'.op \in {"Create", "Read", "Update", "Delete"}
        => ( /\ ( /\ rop'.op \in {"Create", "Read", "Update"}
                  /\ ~HasError(rop') /\ tf'.exists )
                => tf'.last_updated = now
             /\ ((HasError(rop') \/ rop'.op = "Delete") /\ tf'.exists)
                => tf'.last_updated = tf.last_updated ) ]_vars

C18_Witness ==
    /\ rrev = "v2" /\ rop.op = "Read" /\ ~HasError(rop) /\ ret.err = "none"
    /\ tf.exists /\ now = MaxClock /\ tf.last_updated = now

\* C19: a Read whose GetCertificate call succeeded reports no error and leaves
\* a state with the id of the certificate found and the hostname it had; a
\* second such Read right after the first leaves the same id and hostname.
C19_ReadFound ==
    [][ (rop'.op = "Read" /\ ret'.err = "none")
        => ( /\ ~HasError(rop')
             /\ tf'.exists
             /\ tf'.id = IdValue(rrev, ret'.cert.id)
             /\ tf'.hostname = tf.hostname
             /\ (rop.op = "Read" /\ ret.err = "none")
                => (tf'.id = tf.id /\ tf'.hostname = tf.hostname) ) ]_vars

\* C20: Create hands CreateCertificate the configured hostname as it is, and a
\* Read right after a successful Create hands GetCertificate that same string.
C20_SameHostnameString ==
    [][ /\ rop'.op = "Create" => ret'.host = rop'.plan
        /\ (rop.op = "Create" /\ ~HasError(rop) /\ rop'.op = "Read")
           => (ret'.host = ret.host /\ ret'.host = rop.plan) ]_vars

\* the ids of the staged entries of a hostname, in listing order
StagedIds(h) == [k \in 1 .. Len(StagedFor(h)) |-> StagedFor(h)[k].id]

\* C21: DeleteCertificate(hostname) lists once; its DELETE requests are those
\* of the listed ids, one each, in listing order; no other staged entry is
\* removed by it, in particular none staged after the listing.
C21_DeleteSnapshot ==
    [][ /\ (~del.on /\ del'.on)
           => ( /\ del'.ids = StagedIds(del'.host) /\ del'.i = 1
                /\ Len(reqs') = 1 /\ reqs'[1].m = "GET"
                /\ reqs'[1].key = del'.host
                /\ del'.mark = Len(issued) + 1
                /\ \A k \in 1 .. Len(del'.ids) : del'.ids[k] < del'.mark )
        /\ (del.on /\ del'.on) => (del'.ids = del.ids /\ del'.host = del.host)
        /\ (del.on /\ reqs' # reqs)
           => ( /\ Len(reqs) = del.i
                /\ reqs' = Append(reqs, reqs'[Len(reqs')])
                /\ reqs'[Len(reqs')].m = "DELETE"
                /\ reqs'[Len(reqs')].key = Itoa(del.ids[del.i])
                /\ \A k \in 1 .. Len(staged) :
                      staged[k].id # del.ids[del.i]
                      => \E j \in 1 .. Len(staged') : staged'[j] = staged[k]
                /\ IF del'.on THEN del'.i = del.i + 1
                   ELSE ret'.err # "none" \/ del.i = Len(del.ids) )
        /\ (del.on /\ reqs' = reqs) => del'.i = del.i ]_vars

\* the Delete returned success after an entry of its hostname was staged behind
\* its listing: every listed id was deleted, and that entry is still staged
C21_Witness ==
    /\ DeletesByHostname(crev)
    /\ ret.op = "Delete" /\ ret.host \in Hostnames /\ ret.err = "none"
    /\ Len(reqs) > 1
    /\ \A k \in 2 .. Len(reqs) : reqs[k].m = "DELETE" /\ reqs[k].done
    /\ StagedFor(ret.host) # << >>
    /\ \A k \in 1 .. Len(StagedFor(ret.host)) :
          StagedFor(ret.host)[k].id >= ret.mark

\* the environment as Configure may look at it: a variable whose attribute is
\* set in the block is taken away
EnvHostIfNull == IF prov.chost.kind = "null" THEN prov.ehost ELSE ""
EnvPortIfNull == IF prov.cport.kind = "null" THEN prov.eport ELSE << >>

\* the port a set block attribute stands for, when it is an integer
BlockPortIsInteger ==
    IF prov.rev = "string" THEN AtoiSeqOk(prov.cport.val)
    ELSE ~prov.cport.val.frac
BlockPort ==
    IF prov.rev = "string" THEN AtoiSeqVal(prov.cport.val)
    ELSE prov.cport.val.n

\* C22: host and port are each taken from the provider block when the
\* attribute is not null and from CERTMGR_HOST / CERTMGR_PORT only when it is
\* null; the environment variable of a configured attribute changes nothing.
C22_ConfigPrecedence ==
    prov.done
    => /\ [errs |-> prov.errs, data |-> prov.data]
          = IF prov.rev = "string"
            THEN ConfigureString(crev, prov.chost, prov.cport,
                                 EnvHostIfNull, EnvPortIfNull)
            ELSE ConfigureNumber(prov.chost, prov.cport,
                                 EnvHostIfNull, EnvPortIfNull)
       /\ Len(prov.errs) = 0
          => /\ prov.data.host = IF prov.chost.kind = "null"
                                 THEN prov.ehost ELSE prov.chost.val
             /\ prov.cport.kind = "null"
                => prov.data.port = AtoiSeqVal(prov.eport)
             /\ (prov.cport.kind # "null" /\ BlockPortIsInteger)
                => prov.data.port = BlockPort

\* both attributes are set in the block, both variables are set to something
\* else that would do, and the client got the block's host and port
C22_Witness ==
    /\ prov.done /\ Len(prov.errs) = 0
    /\ prov.chost.kind = "value" /\ prov.cport.kind = "value"
    /\ prov.ehost # "" /\ prov.ehost # prov.chost.val
    /\ ~PortStringBad(prov.eport) /\ AtoiSeqVal(prov.eport) # BlockPort
    /\ BlockPortIsInteger
    /\ prov.data.host = prov.chost.val /\ prov.data.port = BlockPort

====
